---- MODULE Spec2Model ----
(***************************************************************************)
(* cx-cli: the configuration store (src/utils/config.js) and the command   *)
(* handlers that use it (configure, delete, display, get, call).           *)
(*                                                                         *)
(* One command invocation is one process: index.js hands the parsed        *)
(* options to the handler, the handler runs to its end or to               *)
(* process.exit.  A step of the model is the code between two awaits.      *)
(* The configuration file is the only state that outlives a process.       *)
(*                                                                         *)
(* The environment decides what the file holds before the first command,   *)
(* whether a read or a write of the file fails, and how the API answers.   *)
(*                                                                         *)
(* Strings that are only compared are TLA+ strings; API keys, whose        *)
(* characters the display command takes apart, are sequences of            *)
(* one-character strings, and so are timestamps and lines of YAML text.    *)
(*                                                                         *)
(* Spec runs the commands one after another.  SpecFormat answers a call    *)
(* or a get that awaits its request with each document of a larger set,    *)
(* SpecLines passes each line of YAML text through the highlighter of the  *)
(* formatters, and SpecWriters runs two configure commands side by side.   *)
(***************************************************************************)
EXTENDS Integers, Sequences, FiniteSets, TLC

VARIABLES
  file,    \* content of ~/.cx-cli/config.yaml
  proc,    \* per process: the state of its command invocation
  active,  \* the processes that run commands
  line     \* one line of YAML text on its way through the highlighter

vars == <<file, proc, active, line>>

---------------------------------------------------------------------------
(* Bounds of the model *)

\* length of the longest API key an invocation is given
MaxKeyLen == 9

\* number of top-level keys of the longest document given to the reorganizer
MaxFields == 3

\* number of entries of the longest events or log array
MaxEntries == 3

\* number of arrays and objects around the deepest timestamp
MaxDepth == 3

\* Process slots.  Spec runs its commands one after another in slot p1
\* (spec.md section 5: one command invocation runs to completion, then the
\* process exits).
Procs == {"p1", "p2"}

---------------------------------------------------------------------------
(* Inputs *)

\* Domain names a user can pass with --domain.  "constructor" and
\* "__proto__" are ordinary command-line strings that are also property
\* names every plain JavaScript object inherits.
DomainNames == {"a.com", "b.com", "constructor", "__proto__"}

\* "" stands for an option that was not given (undefined) or given empty:
\* the handlers only test such an option with !option.
NoArg == ""

Alphabet == <<"k0", "k1", "k2", "k3", "k4", "k5", "k6", "k7", "k8", "k9",
              "kA", "kB", "kC", "kD", "kE", "kF">>

\* the API key of n characters
Key(n) == SubSeq(Alphabet, 1, n)

\* apiKey.length > 8 in display
MaskThreshold == 8

\* apiKey.substring(0, 4) and apiKey.substring(apiKey.length - 4)
MaskShown == 4

\* key lengths on both sides of the threshold
KeyLens == {MaskThreshold} \cup ((MaskThreshold + 1)..MaxKeyLen)

ApiKeys == {Key(n) : n \in KeyLens}

\* the empty string, and what `details.apiKey || ''` yields for a record
\* without apiKey
EmptyKey == << >>

---------------------------------------------------------------------------
(* JavaScript objects parsed from YAML *)

\* Property names every plain object inherits from Object.prototype; each
\* is bound to a function or an object there, so obj[name] is truthy even
\* when obj has no own property of that name.
ObjectPrototypeKeys ==
  {"constructor", "__proto__", "toString", "valueOf", "hasOwnProperty"}

\* The truth value of obj[key] for a mapping whose own values are mappings
\* (the records { apiKey } are objects, hence truthy).
Truthy(obj, key) == key \in DOMAIN obj \/ key \in ObjectPrototypeKeys

\* obj[key] = value.  Assigning to "__proto__" calls the inherited setter:
\* it replaces the prototype and creates no own property.
SetProp(obj, key, value) ==
  IF key = "__proto__"
    THEN obj
    ELSE [k \in DOMAIN obj \cup {key} |-> IF k = key THEN value ELSE obj[k]]

\* a delete that leaves the property in place
DeleteProp_kept(obj, key) == obj

\* delete obj[key]: removes an own property, and is a no-op otherwise
DeleteProp(obj, key) == [k \in DOMAIN obj \ {key} |-> obj[k]]

\* an object without own properties
EmptyObject == [k \in {} |-> EmptyKey]

\* { apiKey }
Details(apiKey) == [apiKey |-> apiKey]

\* A configuration object: domains is undefined (hasDomains = FALSE) or a
\* mapping from domain name to details.
Config(domains) == [hasDomains |-> TRUE, domains |-> domains]

\* a parsed document without a domains key
NoDomainsConfig == [hasDomains |-> FALSE, domains |-> EmptyObject]

\* { domains: {} }
DefaultConfig == Config(EmptyObject)

---------------------------------------------------------------------------
(* The configuration file and src/utils/config.js *)

\* fs.pathExists(CONFIG_FILE) is false
AbsentFile == [kind |-> "absent", doc |-> DefaultConfig]

\* the file exists and holds no document: yaml.parse returns null
EmptyFile == [kind |-> "empty", doc |-> DefaultConfig]

\* the file exists and yaml.parse throws on its content
MalformedFile == [kind |-> "malformed", doc |-> DefaultConfig]

\* yaml.stringify(config): the text of a document.  Only own enumerable
\* properties are written, which is what a Config value holds.
stringify(config) == [kind |-> "yaml", doc |-> config]

\* Outcomes of reading the file: fs.readFile resolves or rejects.
ReadOutcomes == {"ok", "read_error"}

\* Outcomes of fs.writeFile in saveConfig.
WriteOutcomes == {"ok", "write_error"}

\* a loadConfig whose catch rethrows what yaml.parse threw
loadConfig_rethrows(f, io) ==
  IF f.kind = "absent"
    THEN [config |-> DefaultConfig, logged |-> FALSE, raised |-> FALSE]
  ELSE IF io = "read_error"
    THEN [config |-> DefaultConfig, logged |-> TRUE, raised |-> FALSE]
  ELSE IF f.kind = "malformed"
    THEN [config |-> DefaultConfig, logged |-> TRUE, raised |-> TRUE]
  ELSE IF f.kind = "empty"
    THEN [config |-> DefaultConfig, logged |-> FALSE, raised |-> FALSE]
  ELSE [config |-> f.doc, logged |-> FALSE, raised |-> FALSE]

\* loadConfig() on file content f when the read has outcome io.
\* ensureConfigDir is taken to succeed.  The result is the returned
\* configuration, whether console.error was called, and whether the
\* promise rejected.
loadConfig(f, io) ==
  IF f.kind = "absent"
    THEN [config |-> DefaultConfig, logged |-> FALSE, raised |-> FALSE]
  ELSE IF io = "read_error"
    THEN [config |-> DefaultConfig, logged |-> TRUE, raised |-> FALSE]
  ELSE IF f.kind = "malformed"
    THEN [config |-> DefaultConfig, logged |-> TRUE, raised |-> FALSE]
  ELSE IF f.kind = "empty"
    THEN [config |-> DefaultConfig, logged |-> FALSE, raised |-> FALSE]
  ELSE [config |-> f.doc, logged |-> FALSE, raised |-> FALSE]

\* a saveConfig whose catch logs the error and returns
saveConfig_swallows(f, config, io) ==
  IF io = "ok"
    THEN [file |-> stringify(config), logged |-> FALSE, raised |-> FALSE]
    ELSE [file |-> f, logged |-> TRUE, raised |-> FALSE]

\* saveConfig(config) when fs.writeFile has outcome io: the new content of
\* the file, whether the error was logged, and whether it was rethrown.
\* The write replaces the whole file or leaves it as it was.
saveConfig(f, config, io) ==
  IF io = "ok"
    THEN [file |-> stringify(config), logged |-> FALSE, raised |-> FALSE]
    ELSE [file |-> f, logged |-> TRUE, raised |-> TRUE]

\* The part of addDomain between loadConfig and saveConfig:
\* if (!config.domains) config.domains = {}; config.domains[domain] = { apiKey }
addDomain(config, domain, apiKey) ==
  Config(SetProp(IF config.hasDomains THEN config.domains ELSE EmptyObject,
                 domain, Details(apiKey)))

\* The domains mapping a file holds: what a load that can read it returns.
StoredDomains(f) ==
  LET c == loadConfig(f, "ok").config
  IN  IF c.hasDomains THEN c.domains ELSE EmptyObject

---------------------------------------------------------------------------
(* Date-time strings: the replacer of formatSessionYaml (call.js 29-55)   *)
(* and the Date of JavaScript it calls.  A string whose characters the    *)
(* code inspects is a sequence of one-character strings.                  *)

DigitChars == <<"0", "1", "2", "3", "4", "5", "6", "7", "8", "9">>

\* \d
Digits == {DigitChars[i] : i \in 1..Len(DigitChars)}

DigitValue(c) == (CHOOSE i \in 1..Len(DigitChars) : DigitChars[i] = c) - 1

\* s[from..to] matches \d*
AllDigits(s, from, to) == \A i \in from..to : s[i] \in Digits

\* the decimal number written in s[from..to]
RECURSIVE Number(_, _, _)
Number(s, from, to) ==
  IF from > to THEN 0
  ELSE Number(s, from, to - 1) * 10 + DigitValue(s[to])

\* String(n).padStart(width, '0')
RECURSIVE Pad(_, _)
Pad(n, width) ==
  IF width = 0 THEN << >>
  ELSE Pad(n \div 10, width - 1) \o <<DigitChars[(n % 10) + 1]>>

\* \d{4}-\d{2}-\d{2}T\d{2} at the start of s
DateHour(s) ==
  /\ Len(s) >= 13
  /\ AllDigits(s, 1, 4) /\ s[5] = "-" /\ AllDigits(s, 6, 7) /\ s[8] = "-"
  /\ AllDigits(s, 9, 10) /\ s[11] = "T" /\ AllDigits(s, 12, 13)

\* \d{4}-\d{2}-\d{2}T\d{2}:\d{2} at the start of s
DateMinute(s) ==
  /\ Len(s) >= 16 /\ DateHour(s) /\ s[14] = ":" /\ AllDigits(s, 15, 16)

\* \d{4}-\d{2}-\d{2}T\d{2}:\d{2}:\d{2} at the start of s
DateSecond(s) ==
  /\ Len(s) >= 19 /\ DateMinute(s) /\ s[17] = ":" /\ AllDigits(s, 18, 19)

\* /^\d{4}-\d{2}-\d{2}T\d{2}$/.test(dateString)
HourOnly(s) == Len(s) = 13 /\ DateHour(s)

\* /^\d{4}-\d{2}-\d{2}T\d{2}:\d{2}$/.test(dateString)
HourMinute(s) == Len(s) = 16 /\ DateMinute(s)

\* /^\d{4}-\d{2}-\d{2}T\d{2}:\d{2}:\d{2}$/.test(dateString)
HourMinuteSecond(s) == Len(s) = 19 /\ DateSecond(s)

\* ':00:00.000Z'
HourSuffix == <<":", "0", "0", ":", "0", "0", ".", "0", "0", "0", "Z">>

\* ':00.000Z'
MinuteSuffix == <<":", "0", "0", ".", "0", "0", "0", "Z">>

\* '.000Z'
SecondSuffix == <<".", "0", "0", "0", "Z">>

\* dateString after the three tests of the replacer
completeDate(value) ==
  IF HourOnly(value) THEN value \o HourSuffix
  ELSE IF HourMinute(value) THEN value \o MinuteSuffix
  ELSE IF HourMinuteSecond(value) THEN value \o SecondSuffix
  ELSE value

\* Days from 1970-01-01 to the day y-m-d of the proleptic Gregorian
\* calendar (MakeDay of ECMAScript); a day past the end of its month counts
\* on into the next month.
MakeDay(y, m, d) ==
  LET yy  == IF m <= 2 THEN y - 1 ELSE y
      era == yy \div 400
      yoe == yy - era * 400
      mp  == (m + 9) % 12
      doy == (153 * mp + 2) \div 5 + d - 1
      doe == yoe * 365 + yoe \div 4 - yoe \div 100 + doy
  IN  era * 146097 + doe - 719468

\* year, month and day of the day that many days after 1970-01-01
DateFromDay(day) ==
  LET z   == day + 719468
      era == z \div 146097
      doe == z - era * 146097
      yoe == (doe - doe \div 1460 + doe \div 36524 - doe \div 146096) \div 365
      doy == doe - (365 * yoe + yoe \div 4 - yoe \div 100)
      mp  == (5 * doy + 2) \div 153
      m   == IF mp < 10 THEN mp + 3 ELSE mp - 9
  IN  [year  |-> yoe + era * 400 + (IF m <= 2 THEN 1 ELSE 0),
       month |-> m,
       date  |-> doy - (153 * mp + 2) \div 5 + 1]

\* A Date: its time value is day * 86400000 + ms, kept in two parts;
\* valid is FALSE for the time value NaN.
InvalidDate == [valid |-> FALSE, day |-> 0, ms |-> 0]

\* the Date of the fields of a date-time, offset minutes east of UTC
MakeDate(y, mo, d, h, mi, s, ms, offset) ==
  LET t == ((h * 60 + mi - offset) * 60 + s) * 1000 + ms
  IN  [valid |-> TRUE,
       day   |-> MakeDay(y, mo, d) + t \div 86400000,
       ms    |-> t % 86400000]

\* new Date(dateString) for the date-time format of ECMAScript with
\* seconds, milliseconds and a zone, YYYY-MM-DDTHH:mm:ss.sssZ or
\* YYYY-MM-DDTHH:mm:ss.sss+HH:mm; fields out of range give NaN.  Every
\* other string of the model is one no Date parser accepts.
DateParse(s) ==
  LET zulu   == Len(s) = 24 /\ s[24] = "Z"
      offset == /\ Len(s) = 29 /\ s[24] \in {"+", "-"}
                /\ AllDigits(s, 25, 26) /\ s[27] = ":" /\ AllDigits(s, 28, 29)
  IN
  IF ~(DateSecond(s) /\ Len(s) >= 23 /\ s[20] = "." /\ AllDigits(s, 21, 23)
       /\ (zulu \/ offset))
    THEN InvalidDate
  ELSE
    LET y  == Number(s, 1, 4)
        mo == Number(s, 6, 7)
        d  == Number(s, 9, 10)
        h  == Number(s, 12, 13)
        mi == Number(s, 15, 16)
        se == Number(s, 18, 19)
        ms == Number(s, 21, 23)
        oh == IF zulu THEN 0 ELSE Number(s, 25, 26)
        om == IF zulu THEN 0 ELSE Number(s, 28, 29)
        east == IF ~zulu /\ s[24] = "-" THEN 0 - (oh * 60 + om)
                ELSE oh * 60 + om
    IN
    IF /\ mo \in 1..12 /\ d \in 1..31
       /\ \/ h \in 0..23 /\ mi \in 0..59 /\ se \in 0..59
          \/ h = 24 /\ mi = 0 /\ se = 0 /\ ms = 0
       /\ oh \in 0..23 /\ om \in 0..59
      THEN MakeDate(y, mo, d, h, mi, se, ms, east)
      ELSE InvalidDate

\* date.toISOString() of a valid Date: YYYY-MM-DDTHH:mm:ss.sssZ
toISOString(date) ==
  LET c  == DateFromDay(date.day)
      h  == date.ms \div 3600000
      mi == (date.ms \div 60000) % 60
      se == (date.ms \div 1000) % 60
  IN  Pad(c.year, 4) \o <<"-">> \o Pad(c.month, 2) \o <<"-">>
        \o Pad(c.date, 2) \o <<"T">> \o Pad(h, 2) \o <<":">> \o Pad(mi, 2)
        \o <<":">> \o Pad(se, 2) \o <<".">> \o Pad(date.ms % 1000, 3)
        \o <<"Z">>

\* a - b of two Dates is negative, zero or positive, or NaN
DateDifference(a, b) ==
  IF ~a.valid \/ ~b.valid THEN "NaN"
  ELSE IF a.day < b.day \/ (a.day = b.day /\ a.ms < b.ms) THEN "negative"
  ELSE IF a = b THEN "zero"
  ELSE "positive"

---------------------------------------------------------------------------
(* JSON values: what response.data holds and what the formatters work on *)

Null == [t |-> "null"]

\* the value of a property that is not there
Undefined == [t |-> "undefined"]

\* a string, as the sequence of its characters
Str(s) == [t |-> "str", s |-> s]

Num(n) == [t |-> "num", n |-> n]

Arr(items) == [t |-> "arr", items |-> items]

\* one own property of an object
Field(k, v) == [k |-> k, v |-> v]

\* a plain object: its own properties in the order Object.keys lists them
Obj(fields) == [t |-> "obj", fields |-> fields]

\* !!value
ToBoolean(value) ==
  ~ \/ value.t \in {"null", "undefined"}
    \/ value.t = "str" /\ value.s = << >>
    \/ value.t = "num" /\ value.n = 0

\* a || b
Or(a, b) == IF ToBoolean(a) THEN a ELSE b

\* Object.keys(obj)
Keys(obj) == [i \in 1..Len(obj.fields) |-> obj.fields[i].k]

\* value[key] of an object that has the key among its own properties, of
\* an object that has not, and of a string or a number
GetProp(value, key) ==
  IF value.t = "obj" /\ \E i \in 1..Len(value.fields) : value.fields[i].k = key
    THEN value.fields[CHOOSE i \in 1..Len(value.fields) :
                        value.fields[i].k = key].v
    ELSE Undefined

\* A property name that is an array index ("0", "1", ...): an object lists
\* such names first, in ascending order, and the other names after them in
\* the order in which they were added.
IsArrayIndex(key) == key \in Digits

\* obj[key] = value
PutProp(obj, key, value) ==
  LET fs == obj.fields IN
  IF \E i \in 1..Len(fs) : fs[i].k = key
    THEN Obj([i \in 1..Len(fs) |->
                IF fs[i].k = key THEN Field(key, value) ELSE fs[i]])
  ELSE IF IsArrayIndex(key)
    THEN LET Lower(f) == IsArrayIndex(f.k)
                           /\ DigitValue(f.k) < DigitValue(key)
             Other(f) == ~Lower(f)
         IN  Obj(SelectSeq(fs, Lower) \o <<Field(key, value)>>
                   \o SelectSeq(fs, Other))
    ELSE Obj(Append(fs, Field(key, value)))

\* a replacer that returns String(date) of a Date that is not valid
replacer_unguarded(key, value) ==
  IF value.t = "str" /\ key \in {"timestamp", "time"}
    THEN LET date == DateParse(completeDate(value.s))
         IN  IF date.valid THEN Str(toISOString(date))
             ELSE Str(<<"I", "n", "v", "a", "l", "i", "d", " ",
                        "D", "a", "t", "e">>)
    ELSE value

\* the replacer of formatSessionYaml: a string under the key timestamp or
\* time is completed, parsed, and replaced by toISOString() when the Date
\* is valid
replacer(key, value) ==
  IF value.t = "str" /\ key \in {"timestamp", "time"}
    THEN LET date == DateParse(completeDate(value.s))
         IN  IF date.valid THEN Str(toISOString(date)) ELSE value
    ELSE value

\* new Date(value) of a string and of a number of milliseconds
NewDate(value) ==
  CASE value.t = "str" -> DateParse(value.s)
    [] value.t = "num" -> [valid |-> TRUE, day |-> value.n \div 86400000,
                           ms |-> value.n % 86400000]

\* The response interceptor of createApiClient (api.js 38-71) on one
\* entry of response.data.log: a truthy timestamp or time is completed,
\* parsed and replaced as by the replacer; a number is a valid Date.  The
\* entries are objects, strings or numbers.
interceptEntry(entry) ==
  LET Fix(e, field) ==
        LET value == GetProp(e, field) IN
        IF ~ToBoolean(value) THEN e
        ELSE CASE value.t = "str" -> PutProp(e, field, replacer(field, value))
               [] value.t = "num" ->
                    PutProp(e, field, Str(toISOString(NewDate(value))))
  IN  Fix(Fix(entry, "timestamp"), "time")

\* response.data after the response interceptor
interceptor(data) ==
  LET log == GetProp(data, "log") IN
  IF ToBoolean(data) /\ ToBoolean(log) /\ log.t = "arr"
    THEN PutProp(data, "log",
                 Arr([i \in 1..Len(log.items) |-> interceptEntry(log.items[i])]))
    ELSE data

\* a copy in which the replacer sees only the top-level properties
jsonCopy_shallow(key, value) ==
  IF value.t = "obj"
    THEN Obj([i \in 1..Len(value.fields) |->
                Field(value.fields[i].k,
                      replacer(value.fields[i].k, value.fields[i].v))])
    ELSE value

\* JSON.parse(JSON.stringify(holder, replacer)), at the property key of
\* its holder: JSON.stringify calls the replacer on every property of every
\* object and on every element of every array (under its index)
RECURSIVE jsonCopy(_, _)
jsonCopy(key, value) ==
  LET v == replacer(key, value) IN
  IF v.t = "arr"
    THEN Arr([i \in 1..Len(v.items) |-> jsonCopy(DigitChars[i], v.items[i])])
  ELSE IF v.t = "obj"
    THEN Obj([i \in 1..Len(v.fields) |->
                Field(v.fields[i].k, jsonCopy(v.fields[i].k, v.fields[i].v))])
    ELSE v

\* a test that takes an array for complex only when it has elements
IsComplex_nonEmpty(value) ==
  \/ value.t = "arr" /\ Len(value.items) > 0
  \/ value.t = "obj" /\ Len(value.fields) > 0

\* Array.isArray(value) ||
\* (value !== null && typeof value === 'object' && Object.keys(value).length > 0)
IsComplex(value) ==
  \/ value.t = "arr"
  \/ value.t = "obj" /\ Len(value.fields) > 0

\* (a, b) => new Date(a.timestamp || 0) - new Date(b.timestamp || 0)
eventsCompare(a, b) ==
  DateDifference(NewDate(Or(GetProp(a, "timestamp"), Num(0))),
                 NewDate(Or(GetProp(b, "timestamp"), Num(0))))

\* (a, b) => new Date(a.timestamp || a.time || 0)
\*             - new Date(b.timestamp || b.time || 0)
logCompare(a, b) ==
  DateDifference(
    NewDate(Or(GetProp(a, "timestamp"), Or(GetProp(a, "time"), Num(0)))),
    NewDate(Or(GetProp(b, "timestamp"), Or(GetProp(b, "time"), Num(0)))))

\* the permutations of 1..n
Orderings(n) ==
  {f \in [1..n -> 1..n] : \A i, j \in 1..n : f[i] = f[j] => i = j}

\* keys.forEach(key => { obj[key] = value[key] })
RECURSIVE PutAll(_, _, _)
PutAll(obj, keys, value) ==
  IF keys = << >> THEN obj
  ELSE PutAll(PutProp(obj, Head(keys), value[Head(keys)]), Tail(keys), value)

\* items.sort(compare), where compare[i, j] is what the comparator returns
\* for the items at i and j.  A comparator result of NaN counts as zero.
\* When the comparator is consistent (a total preorder of the items) the
\* result is the one stable ordering; when it is not, the order is left to
\* the implementation.
SortOutcomes(items, compare) ==
  LET n == Len(items)
      AtMost(i, j)  == compare[i, j] # "positive"
      Below(i, j)   == compare[i, j] = "negative"
      consistent    == \A i, j, k \in 1..n :
                         AtMost(i, j) /\ AtMost(j, k) => AtMost(i, k)
      Stable(f)     == \A i, j \in 1..n :
                         i < j => \/ Below(f[i], f[j])
                                  \/ AtMost(f[i], f[j]) /\ f[i] < f[j]
      orders        == IF consistent
                         THEN {f \in Orderings(n) : Stable(f)}
                         ELSE Orderings(n)
  IN  {[i \in 1..n |-> items[f[i]]] : f \in orders}

---------------------------------------------------------------------------
(* Command-line options and API responses *)

Commands == {"configure", "delete", "display", "get", "call"}

\* --subscriber, --application, --trunk, --dnid of get: not given
\* (undefined) or given (true; an id instead changes only the URL and
\* the title of the request)
FlagValues == {"undefined", "true"}

NoOpts ==
  [domain |-> NoArg, apikey |-> EmptyKey, session |-> NoArg, log |-> FALSE,
   subscriber |-> "undefined", application |-> "undefined",
   trunk |-> "undefined", dnid |-> "undefined"]

\* the options commander can hand to each command
OptionsOf(cmd) ==
  CASE cmd = "configure" ->
         {[NoOpts EXCEPT !.domain = d, !.apikey = k] :
            d \in DomainNames \cup {NoArg}, k \in ApiKeys \cup {EmptyKey}}
    [] cmd = "delete" ->
         {[NoOpts EXCEPT !.domain = d] : d \in DomainNames \cup {NoArg}}
    [] cmd = "display" -> {NoOpts}
    [] cmd = "get" ->
         {[NoOpts EXCEPT !.domain = d, !.subscriber = s, !.application = a,
                         !.trunk = t, !.dnid = n] :
            d \in DomainNames \cup {NoArg},
            s \in FlagValues, a \in FlagValues,
            t \in FlagValues, n \in FlagValues}
    [] cmd = "call" ->
         {[NoOpts EXCEPT !.domain = d, !.session = s, !.log = l] :
            d \in DomainNames \cup {NoArg}, s \in {NoArg, "s1"},
            l \in BOOLEAN}

\* '2025-04-01T02'
StampHour == <<"2", "0", "2", "5", "-", "0", "4", "-", "0", "1", "T", "0", "2">>

\* '2025-04-01T01:15'
StampMinute ==
  <<"2", "0", "2", "5", "-", "0", "4", "-", "0", "1", "T", "0", "1",
    ":", "1", "5">>

\* a session document without a log field
SessionDoc ==
  Obj(<<Field("id", Num(7)),
        Field("events", Arr(<<Obj(<<Field("timestamp", Str(StampHour))>>),
                              Obj(<<Field("timestamp", Str(StampMinute))>>)>>))>>)

\* a session document with a log field
SessionDocWithLog ==
  Obj(<<Field("id", Num(7)),
        Field("log", Arr(<<Obj(<<Field("time", Str(StampHour))>>)>>))>>)

\* the empty string axios gives for an answer without a body
EmptyBody == Str(<< >>)

\* What the API returns in response.data: JSON null or a document.
ResponseData == {Null, SessionDoc, SessionDocWithLog}

\* !data
Falsy(data) == ~ToBoolean(data)

\* Outcomes of client.get (axios): the promise resolves for a 2xx status,
\* and rejects with error.response (another status), with error.request
\* (no answer) or with neither (the request could not be set up).
Responses ==
  {[kind |-> "ok", status |-> 200, data |-> d] : d \in ResponseData}
    \cup {[kind |-> "ok", status |-> 204, data |-> EmptyBody],
          [kind |-> "http_error", status |-> 401, data |-> Null],
          [kind |-> "no_response", status |-> 0, data |-> Null],
          [kind |-> "setup_error", status |-> 0, data |-> Null]}

---------------------------------------------------------------------------
(* Processes *)

\* no loadConfig has returned in this invocation
NotLoaded ==
  [loaded |-> FALSE, kind |-> "absent", io |-> "ok", config |-> DefaultConfig]

\* no request has been answered in this invocation
NoResponse == [kind |-> "none", status |-> 0, data |-> Null]

\* nothing has been formatted
NoOutput == [kind |-> "none"]

\* A process that runs no command.  start is the content of the file when
\* the invocation began, seen is what its loadConfig met and returned, resp
\* is the answer to its request, trace lists what the invocation did and
\* printed, rows is the table display printed.
Idle(f) ==
  [pc |-> "idle", cmd |-> "none", opts |-> NoOpts, config |-> DefaultConfig,
   trace |-> << >>, exit |-> -1, start |-> f, seen |-> NotLoaded,
   resp |-> NoResponse, rows |-> EmptyObject, out |-> NoOutput]

\* process.exit(code), or the end of the handler (code 0)
Exit(st, events, code) ==
  [st EXCEPT !.pc = "done", !.trace = @ \o events, !.exit = code]

\* continue at the next await
Goto(st, events, pc) == [st EXCEPT !.pc = pc, !.trace = @ \o events]

\* the invocation records the answer to its request
Answered(st, resp) == [st EXCEPT !.resp = resp]

\* the invocation records what it formatted for console.log
Printed(st, out) == [st EXCEPT !.out = out]

\* what console.log of a formatted document adds to the trace
OutputEvent(out) ==
  CASE out.kind = "rendered" -> "out:render"
    [] out.kind = "nodata"   -> "out:nodata"
    [] out.kind = "noinfo"   -> "out:noinfo"

\* what loadConfig adds to the trace
LoadEvents(r) ==
  <<"loadConfig">> \o (IF r.logged THEN <<"log:load_error">> ELSE << >>)

\* the invocation records what its load met and returned
Loaded(st, f, io, r) ==
  [st EXCEPT !.config = r.config,
             !.seen = [loaded |-> TRUE, kind |-> f.kind, io |-> io,
                       config |-> r.config]]

\* index.js: program.parse dispatches to the handler with the options.
Invoke(p, cmd, opts) ==
  /\ p \in active
  /\ proc[p].pc = "idle"
  /\ proc' = [proc EXCEPT ![p] =
                [Idle(file) EXCEPT !.pc = "start", !.cmd = cmd, !.opts = opts]]
  /\ UNCHANGED <<file, active, line>>

\* what saveConfig adds to the trace
SaveEvents(r) ==
  <<"saveConfig">> \o (IF r.logged THEN <<"log:save_error">> ELSE <<"saved">>)

\* The process ends after process.exit or when the handler has returned;
\* the next invocation is a new process, which shares only the file.
ProcessExit(p) ==
  /\ proc[p].pc = "done"
  /\ proc' = [proc EXCEPT ![p] = Idle(file)]
  /\ UNCHANGED <<file, active, line>>

---------------------------------------------------------------------------
(* configure: src/commands/configure.js, with validateDomain and addDomain *)

\* a validateDomain that takes every resolved request for a valid domain
validateDomain_anyStatus(resp) ==
  IF resp.kind = "ok"
    THEN [isValid |-> TRUE, logged |-> FALSE]
    ELSE [isValid |-> FALSE, logged |-> TRUE]

\* validateDomain on the outcome of its request: response.status === 200,
\* and false after reporting any failure of the request
validateDomain(resp) ==
  IF resp.kind = "ok"
    THEN [isValid |-> resp.status = 200, logged |-> FALSE]
    ELSE [isValid |-> FALSE, logged |-> TRUE]

\* configure up to `await validateDomain(...)`: the options are checked,
\* then the validation request is sent
configure_start(p) ==
  LET st == proc[p] IN
  /\ st.pc = "start" /\ st.cmd = "configure"
  /\ proc' = [proc EXCEPT ![p] =
       IF st.opts.domain = NoArg \/ st.opts.apikey = EmptyKey
         THEN Exit(st, <<"err:usage">>, 1)
         ELSE Goto(st, <<"out:validating", "net">>, "validate")]
  /\ UNCHANGED <<file, active, line>>

\* configure from the answer of the validation to the loadConfig of addDomain
configure_validated(p, resp) ==
  LET st == Answered(proc[p], resp)
      v  == validateDomain(resp)
      ev == IF v.logged THEN <<"err:api">> ELSE << >>
  IN
  /\ st.pc = "validate"
  /\ proc' = [proc EXCEPT ![p] =
       IF ~v.isValid
         THEN Exit(st, ev \o <<"err:invalid">>, 1)
         ELSE Goto(st, ev \o <<"out:validated", "addDomain">>, "add_load")]
  /\ UNCHANGED <<file, active, line>>

\* addDomain from the return of loadConfig to the writeFile of saveConfig
addDomain_load(p, io) ==
  LET st == proc[p]
      r  == loadConfig(file, io)
  IN
  /\ st.pc = "add_load"
  /\ proc' = [proc EXCEPT ![p] =
       IF r.raised
         THEN Exit(st, LoadEvents(r) \o <<"err:command">>, 1)
         ELSE Goto([Loaded(st, file, io, r) EXCEPT
                      !.config = addDomain(r.config, st.opts.domain,
                                           st.opts.apikey)],
                   LoadEvents(r), "add_save")]
  /\ UNCHANGED <<file, active, line>>

\* saveConfig in addDomain, then the end of configure or its catch
addDomain_save(p, io) ==
  LET st == proc[p]
      r  == saveConfig(file, st.config, io)
  IN
  /\ st.pc = "add_save"
  /\ file' = r.file
  /\ proc' = [proc EXCEPT ![p] =
       IF r.raised
         THEN Exit(st, SaveEvents(r) \o <<"err:command">>, 1)
         ELSE Exit(st, SaveEvents(r) \o <<"out:configured">>, 0)]
  /\ UNCHANGED <<active, line>>

---------------------------------------------------------------------------
(* saveConfig step by step.  fs.writeFile(CONFIG_FILE, yamlString) opens  *)
(* the file with flag 'w', which creates it or truncates it to no         *)
(* content, and then writes the text from the start of the file.  Within  *)
(* one process nothing happens between the two, and addDomain_save takes   *)
(* them as one step; another process can read or write the file between.  *)

\* name.length
NameLength(name) ==
  CASE name = "a.com"       -> 5
    [] name = "b.com"       -> 5
    [] name = "constructor" -> 11
    [] name = "__proto__"   -> 9

\* the length of the lines yaml.stringify writes for the records of names:
\* "  name:\n    apiKey: key\n", or "  name: {}\n" for a record without apiKey
RECURSIVE RecordsLength(_, _)
RecordsLength(domains, names) ==
  IF names = {} THEN 0
  ELSE LET name == CHOOSE n \in names : TRUE
           this == IF "apiKey" \in DOMAIN domains[name]
                     THEN NameLength(name) + 17 + Len(domains[name].apiKey)
                     ELSE NameLength(name) + 7
       IN  this + RecordsLength(domains, names \ {name})

\* yaml.stringify(config).length: "{}\n", "domains: {}\n", or "domains:\n"
\* and the lines of the records
TextLength(config) ==
  IF ~config.hasDomains THEN 3
  ELSE IF DOMAIN config.domains = {} THEN 12
  ELSE 9 + RecordsLength(config.domains, DOMAIN config.domains)

\* the number of characters the file holds
FileLength(f) ==
  CASE f.kind = "yaml"  -> TextLength(f.doc)
    [] f.kind = "mixed" -> TextLength(f.rest)
    [] OTHER            -> 0

\* A text begins with the text of config: the properties of an object are
\* written in the order of their creation, and addDomain creates a property
\* after those the file held, so the text of a configuration begins with
\* the text of every configuration that holds a part of its records and
\* nothing else.
BeginsWith(f, config) ==
  /\ f.kind = "yaml" /\ f.doc.hasDomains /\ config.hasDomains
  /\ DOMAIN config.domains # {}
  /\ DOMAIN config.domains \subseteq DOMAIN f.doc.domains
  /\ \A d \in DOMAIN config.domains : config.domains[d] = f.doc.domains[d]

\* the content of an open file f after the text of config is written at
\* its start: the text alone when the file held no more characters than the
\* text has; else the text and, after it, the rest of what the file held.
\* A rest of one character is the line end of the last line: the file is
\* then the text and an empty line, which is the same document.
Overwrite(f, config) ==
  IF FileLength(f) <= TextLength(config) + 1 THEN stringify(config)
  ELSE IF BeginsWith(f, config) THEN f
  ELSE [kind |-> "mixed", doc |-> config,
        rest |-> IF f.kind = "mixed" THEN f.rest ELSE f.doc]

\* Outcomes of the open of fs.writeFile.
OpenOutcomes == {"ok", "open_error"}

\* saveConfig up to the write of fs.writeFile: the file is opened, which
\* creates or truncates it; a failure of the open is logged and rethrown
\* to the catch of configure
writeFile_open(p, io) ==
  LET st == proc[p] IN
  /\ st.pc = "add_save"
  /\ file' = IF io = "ok" THEN EmptyFile ELSE file
  /\ proc' = [proc EXCEPT ![p] =
       IF io = "ok"
         THEN Goto(st, <<"saveConfig">>, "add_write")
         ELSE Exit(st, <<"saveConfig", "log:save_error", "err:command">>, 1)]
  /\ UNCHANGED <<active, line>>

\* the write of fs.writeFile, then the end of configure or its catch
writeFile_write(p, io) ==
  LET st == proc[p] IN
  /\ st.pc = "add_write"
  /\ file' = IF io = "ok" THEN Overwrite(file, st.config) ELSE file
  /\ proc' = [proc EXCEPT ![p] =
       IF io = "ok"
         THEN Exit(st, <<"saved", "out:configured">>, 0)
         ELSE Exit(st, <<"log:save_error", "err:command">>, 1)]
  /\ UNCHANGED <<active, line>>

---------------------------------------------------------------------------
(* delete: src/commands/delete.js *)

\* if (!config.domains || !config.domains[domain])
DomainMissing(config, domain) ==
  ~config.hasDomains \/ ~Truthy(config.domains, domain)

\* deleteDomain up to `await loadConfig()`
deleteDomain_start(p) ==
  LET st == proc[p] IN
  /\ st.pc = "start" /\ st.cmd = "delete"
  /\ proc' = [proc EXCEPT ![p] =
       IF st.opts.domain = NoArg
         THEN Exit(st, <<"err:usage">>, 1)
         ELSE Goto(st, << >>, "del_load")]
  /\ UNCHANGED <<file, active, line>>

\* deleteDomain from the return of loadConfig to the writeFile of saveConfig
deleteDomain_load(p, io) ==
  LET st == proc[p]
      r  == loadConfig(file, io)
      ld == Loaded(st, file, io, r)
  IN
  /\ st.pc = "del_load"
  /\ proc' = [proc EXCEPT ![p] =
       IF r.raised
         THEN Exit(st, LoadEvents(r) \o <<"err:command">>, 1)
       ELSE IF DomainMissing(r.config, st.opts.domain)
         THEN Exit(ld, LoadEvents(r) \o <<"err:notfound">>, 1)
         ELSE Goto([ld EXCEPT !.config =
                      Config(DeleteProp(r.config.domains, st.opts.domain))],
                   LoadEvents(r), "del_save")]
  /\ UNCHANGED <<file, active, line>>

\* saveConfig in deleteDomain, then the success message or the catch
deleteDomain_save(p, io) ==
  LET st == proc[p]
      r  == saveConfig(file, st.config, io)
  IN
  /\ st.pc = "del_save"
  /\ file' = r.file
  /\ proc' = [proc EXCEPT ![p] =
       IF r.raised
         THEN Exit(st, SaveEvents(r) \o <<"err:command">>, 1)
         ELSE Exit(st, SaveEvents(r) \o <<"out:removed">>, 0)]
  /\ UNCHANGED <<active, line>>

---------------------------------------------------------------------------
(* display: src/commands/get.js, lines 253-306 *)

\* details.apiKey || ''
apiKeyOf(details) ==
  IF "apiKey" \in DOMAIN details THEN details.apiKey ELSE EmptyKey

\* '********'
Placeholder == <<"*", "*", "*", "*", "*", "*", "*", "*">>

\* the comparison written as apiKey.length >= 8
maskedKey_atThreshold(apiKey) ==
  IF Len(apiKey) >= MaskThreshold
    THEN SubSeq(apiKey, 1, MaskShown) \o <<".", ".", ".">>
           \o SubSeq(apiKey, Len(apiKey) - MaskShown + 1, Len(apiKey))
    ELSE Placeholder

\* apiKey.length > 8
\*   ? `${apiKey.substring(0, 4)}...${apiKey.substring(apiKey.length - 4)}`
\*   : '********'
maskedKey(apiKey) ==
  IF Len(apiKey) > MaskThreshold
    THEN SubSeq(apiKey, 1, MaskShown) \o <<".", ".", ".">>
           \o SubSeq(apiKey, Len(apiKey) - MaskShown + 1, Len(apiKey))
    ELSE Placeholder

\* display up to `await loadConfig()`
display_start(p) ==
  LET st == proc[p] IN
  /\ st.pc = "start" /\ st.cmd = "display"
  /\ proc' = [proc EXCEPT ![p] = Goto(st, << >>, "disp_load")]
  /\ UNCHANGED <<file, active, line>>

\* a display that writes the configuration it loaded back to the file
display_load_saves(p, io) ==
  LET st == proc[p]
      r  == loadConfig(file, io)
      ld == Loaded(st, file, io, r)
  IN
  /\ st.pc = "disp_load"
  /\ file' = stringify(r.config)
  /\ proc' = [proc EXCEPT ![p] =
       IF r.raised
         THEN Exit(st, LoadEvents(r) \o <<"err:command">>, 1)
       ELSE IF ~r.config.hasDomains \/ DOMAIN r.config.domains = {}
         THEN Exit(ld, LoadEvents(r) \o <<"out:nodomains">>, 0)
         ELSE Exit([ld EXCEPT !.rows =
                      [d \in DOMAIN r.config.domains |->
                         maskedKey(apiKeyOf(r.config.domains[d]))]],
                   LoadEvents(r) \o <<"out:table">>, 0)]
  /\ UNCHANGED <<active, line>>

\* display from the return of loadConfig to its end
display_load(p, io) ==
  LET st == proc[p]
      r  == loadConfig(file, io)
      ld == Loaded(st, file, io, r)
  IN
  /\ st.pc = "disp_load"
  /\ proc' = [proc EXCEPT ![p] =
       IF r.raised
         THEN Exit(st, LoadEvents(r) \o <<"err:command">>, 1)
       ELSE IF ~r.config.hasDomains \/ DOMAIN r.config.domains = {}
         THEN Exit(ld, LoadEvents(r) \o <<"out:nodomains">>, 0)
         ELSE Exit([ld EXCEPT !.rows =
                      [d \in DOMAIN r.config.domains |->
                         maskedKey(apiKeyOf(r.config.domains[d]))]],
                   LoadEvents(r) \o <<"out:table">>, 0)]
  /\ UNCHANGED <<file, active, line>>

---------------------------------------------------------------------------
(* get: src/commands/get.js, lines 1-252 *)

\* [subscriber, application, trunk, dnid]
\*   .filter(option => option !== undefined).length
resourceOptionsCount(opts) ==
  Cardinality({f \in {"subscriber", "application", "trunk", "dnid"} :
                 opts[f] # "undefined"})

\* formatYaml(data, title): 'No data available' for a falsy document,
\* else the title and the YAML text of the document as it is
formatYaml(data) ==
  IF Falsy(data) THEN [kind |-> "nodata"]
  ELSE [kind |-> "rendered", title |-> "data", input |-> data,
        document |-> data]

\* getDomain up to `await loadConfig()`
getDomain_start(p) ==
  LET st == proc[p] IN
  /\ st.pc = "start" /\ st.cmd = "get"
  /\ proc' = [proc EXCEPT ![p] =
       IF st.opts.domain = NoArg
         THEN Exit(st, <<"err:usage">>, 1)
         ELSE Goto(st, << >>, "get_load")]
  /\ UNCHANGED <<file, active, line>>

\* getDomain from the return of loadConfig to the request it awaits
getDomain_load(p, io) ==
  LET st == proc[p]
      r  == loadConfig(file, io)
      ld == Loaded(st, file, io, r)
  IN
  /\ st.pc = "get_load"
  /\ proc' = [proc EXCEPT ![p] =
       IF r.raised
         THEN Exit(st, LoadEvents(r) \o <<"err:command">>, 1)
       ELSE IF DomainMissing(r.config, st.opts.domain)
         THEN Exit(ld, LoadEvents(r) \o <<"err:notfound">>, 1)
       ELSE IF resourceOptionsCount(st.opts) > 1
         THEN Exit(ld, LoadEvents(r) \o <<"err:usage">>, 1)
         ELSE Goto(ld, LoadEvents(r) \o <<"net">>, "get_fetch")]
  /\ UNCHANGED <<file, active, line>>

\* a getDomain that sends the request again when it fails
getDomain_fetched_retries(p, resp) ==
  LET st == Answered(proc[p], resp) IN
  /\ st.pc = "get_fetch"
  /\ proc' = [proc EXCEPT ![p] =
       IF resp.kind # "ok"
         THEN Goto(st, <<"net">>, "get_fetch")
         ELSE LET out == formatYaml(interceptor(resp.data))
              IN  Exit(Printed(st, out), <<OutputEvent(out)>>, 0)]
  /\ UNCHANGED <<file, active, line>>

\* getDomain from the answer of the request to its end
getDomain_fetched(p, resp) ==
  LET st == Answered(proc[p], resp) IN
  /\ st.pc = "get_fetch"
  /\ proc' = [proc EXCEPT ![p] =
       IF resp.kind # "ok"
         THEN Exit(st, <<"err:command">>, 1)
         ELSE LET out == formatYaml(interceptor(resp.data))
              IN  Exit(Printed(st, out), <<OutputEvent(out)>>, 0)]
  /\ UNCHANGED <<file, active, line>>

---------------------------------------------------------------------------
(* call: src/commands/call.js *)

\* The second half of formatSessionYaml (call.js 57-94): the keys with a
\* simple value are put into a new object first, then the keys with a
\* complex value, whose events and log arrays are sorted.  There is one
\* outcome for each order the sorts can leave their arrays in.
reorganize(sessionForYaml) ==
  LET keys        == Keys(sessionForYaml)
      Complex(k)  == IsComplex(GetProp(sessionForYaml, k))
      Simple(k)   == ~Complex(k)
      complexKeys == SelectSeq(keys, Complex)
      Sorted(k)   ==
        LET value == GetProp(sessionForYaml, k) IN
        IF k = "events" /\ value.t = "arr"
          THEN {Arr(a) : a \in SortOutcomes(value.items,
                  [i, j \in 1..Len(value.items) |->
                     eventsCompare(value.items[i], value.items[j])])}
        ELSE IF k = "log" /\ value.t = "arr"
          THEN {Arr(a) : a \in SortOutcomes(value.items,
                  [i, j \in 1..Len(value.items) |->
                     logCompare(value.items[i], value.items[j])])}
          ELSE {value}
      keySet      == {complexKeys[i] : i \in 1..Len(complexKeys)}
      choices     == {c \in [keySet -> UNION {Sorted(k) : k \in keySet}] :
                        \A k \in keySet : c[k] \in Sorted(k)}
      simpleKeys  == SelectSeq(keys, Simple)
      simple      == PutAll(Obj(<< >>), simpleKeys,
                            [k \in {simpleKeys[i] : i \in 1..Len(simpleKeys)}
                               |-> GetProp(sessionForYaml, k)])
  IN  {[complexKeys |-> complexKeys,
        reorganized |-> PutAll(simple, complexKeys, c)] : c \in choices}

\* a formatSessionYaml that has the one title
formatSessionYaml_oneTitle(sessionInfo) ==
  IF Falsy(sessionInfo) THEN {[kind |-> "noinfo"]}
  ELSE
    LET sessionForYaml == jsonCopy("", sessionInfo)
    IN  {[kind |-> "rendered", title |-> "session", input |-> sessionInfo,
          sessionForYaml |-> sessionForYaml, complexKeys |-> r.complexKeys,
          document |-> r.reorganized] : r \in reorganize(sessionForYaml)}

\* formatSessionYaml(sessionInfo): 'No session information available' for
\* a falsy document; else the title (the log title for a document whose
\* only key is a truthy log), the copy with its timestamps normalized, and
\* the reorganized document that is turned into YAML.
formatSessionYaml(sessionInfo) ==
  IF Falsy(sessionInfo) THEN {[kind |-> "noinfo"]}
  ELSE
    LET title == IF Len(Keys(sessionInfo)) = 1
                      /\ ToBoolean(GetProp(sessionInfo, "log"))
                   THEN "log" ELSE "session"
        sessionForYaml == jsonCopy("", sessionInfo)
    IN  {[kind |-> "rendered", title |-> title, input |-> sessionInfo,
          sessionForYaml |-> sessionForYaml, complexKeys |-> r.complexKeys,
          document |-> r.reorganized] : r \in reorganize(sessionForYaml)}

\* getCallInfo up to `await loadConfig()`
getCallInfo_start(p) ==
  LET st == proc[p] IN
  /\ st.pc = "start" /\ st.cmd = "call"
  /\ proc' = [proc EXCEPT ![p] =
       IF st.opts.domain = NoArg \/ st.opts.session = NoArg
         THEN Exit(st, <<"err:usage">>, 1)
         ELSE Goto(st, << >>, "call_load")]
  /\ UNCHANGED <<file, active, line>>

\* getCallInfo from the return of loadConfig to the request it awaits
getCallInfo_load(p, io) ==
  LET st == proc[p]
      r  == loadConfig(file, io)
      ld == Loaded(st, file, io, r)
  IN
  /\ st.pc = "call_load"
  /\ proc' = [proc EXCEPT ![p] =
       IF r.raised
         THEN Exit(st, LoadEvents(r) \o <<"err:command">>, 1)
       ELSE IF DomainMissing(r.config, st.opts.domain)
         THEN Exit(ld, LoadEvents(r) \o <<"err:notfound">>, 1)
         ELSE Goto(ld, LoadEvents(r) \o <<"net">>, "call_fetch")]
  /\ UNCHANGED <<file, active, line>>

\* getCallInfo from the answer of the request to its end.  With --log,
\* sessionInfo.log of null throws, which the catch reports; a truthy log
\* is displayed alone, and without one the warning precedes the whole
\* document.
getCallInfo_fetched(p, resp) ==
  LET st            == Answered(proc[p], resp)
      sessionInfo   == interceptor(resp.data)
      log           == GetProp(sessionInfo, "log")
      dataToDisplay == IF st.opts.log /\ ToBoolean(log)
                         THEN Obj(<<Field("log", log)>>)
                         ELSE sessionInfo
      warning       == IF st.opts.log /\ ~ToBoolean(log)
                         THEN <<"out:warning_nolog">> ELSE << >>
  IN
  /\ st.pc = "call_fetch"
  /\ \E out \in formatSessionYaml(dataToDisplay) :
       proc' = [proc EXCEPT ![p] =
         IF resp.kind # "ok"
           THEN Exit(st, <<"err:command">>, 1)
         ELSE IF st.opts.log /\ sessionInfo.t \in {"null", "undefined"}
           THEN Exit(st, <<"err:command">>, 1)
           ELSE Exit(Printed(st, out), warning \o <<OutputEvent(out)>>, 0)]
  /\ UNCHANGED <<file, active, line>>

---------------------------------------------------------------------------
(* The highlighter: the callback of coloredLines and processValue         *)
(* (call.js 100-153; get.js 74-127 is a copy of the same code)            *)

\* no line is on its way through the highlighter
NoLine == [text |-> << >>, colored |-> << >>, done |-> FALSE]

\* chalk: the text in a style ("none": as it is); nothing for no text
Styled(style, text) ==
  IF text = << >> THEN << >> ELSE <<[style |-> style, text |-> text]>>

\* s.indexOf(c), counted from 1; 0 when c is not in s
IndexOf(s, c) ==
  IF \E i \in 1..Len(s) : s[i] = c
    THEN CHOOSE i \in 1..Len(s) : s[i] = c /\ \A j \in 1..(i - 1) : s[j] # c
    ELSE 0

\* position of the first and of the last character of s that is no space
FirstNonSpace(s) ==
  IF \E i \in 1..Len(s) : s[i] # " "
    THEN CHOOSE i \in 1..Len(s) :
           s[i] # " " /\ \A j \in 1..(i - 1) : s[j] = " "
    ELSE Len(s) + 1

LastNonSpace(s) ==
  IF \E i \in 1..Len(s) : s[i] # " "
    THEN CHOOSE i \in 1..Len(s) :
           s[i] # " " /\ \A j \in (i + 1)..Len(s) : s[j] = " "
    ELSE 0

\* s.trim(), of a text whose only white space is the space
Trim(s) == SubSeq(s, FirstNonSpace(s), LastNonSpace(s))

\* t.match(/^-?\d+(\.\d+)?$/)
NumberText(t) ==
  LET u   == IF t # << >> /\ t[1] = "-" THEN Tail(t) ELSE t
      dot == IndexOf(u, ".")
  IN  IF dot = 0 THEN u # << >> /\ AllDigits(u, 1, Len(u))
      ELSE /\ 1 < dot /\ dot < Len(u)
           /\ AllDigits(u, 1, dot - 1) /\ AllDigits(u, dot + 1, Len(u))

\* /\d{4}-\d{2}-\d{2}T/ matches s at position i
DateAt(s, i) ==
  /\ i + 10 <= Len(s)
  /\ AllDigits(s, i, i + 3) /\ s[i + 4] = "-" /\ AllDigits(s, i + 5, i + 6)
  /\ s[i + 7] = "-" /\ AllDigits(s, i + 8, i + 9) /\ s[i + 10] = "T"

\* [\d:.Z+-]
DateCharacters == Digits \cup {":", ".", "Z", "+", "-"}

\* processValue(value): the value with its number, boolean, date or quoted
\* string in colour
processValue(value) ==
  LET t    == Trim(value)
      from == FirstNonSpace(value)
      to   == LastNonSpace(value)
      Mark(style, a, b) ==
        Styled("none", SubSeq(value, 1, a - 1))
          \o Styled(style, SubSeq(value, a, b))
          \o Styled("none", SubSeq(value, b + 1, Len(value)))
      \* where /(\d{4}-\d{2}-\d{2}T[\d:.Z+-]+)/ can match
      starts == {i \in 1..Len(value) :
                   /\ DateAt(value, i) /\ i + 11 <= Len(value)
                   /\ value[i + 11] \in DateCharacters}
  IN
  IF t = << >> \/ t = <<"n", "u", "l", "l">> THEN Styled("none", value)
  ELSE IF NumberText(t) THEN Mark("yellow", from, to)
  ELSE IF t = <<"t", "r", "u", "e">> \/ t = <<"f", "a", "l", "s", "e">>
    THEN Mark("yellow", from, to)
  ELSE IF \E i \in 1..Len(t) : DateAt(t, i)
    THEN IF starts = {} THEN Styled("none", value)
         ELSE LET a == CHOOSE i \in starts : \A j \in starts : i <= j
                  b == CHOOSE j \in (a + 11)..Len(value) :
                         /\ \A k \in (a + 11)..j : value[k] \in DateCharacters
                         /\ j < Len(value) => value[j + 1] \notin DateCharacters
              IN  Mark("green", a, b)
  ELSE IF /\ Len(t) >= 2 /\ t[1] \in {"\"", "'"} /\ t[Len(t)] = t[1]
    THEN Mark("green", from, to)
  ELSE Styled("none", value)

\* line => { ... } of coloredLines: a line with a colon is its key in cyan
\* and its processed value; else a line that starts with '-' has its first
\* '-' in yellow; else the line is as it was
colorLine(text) ==
  LET colonPos == IndexOf(text, ":")
      dash     == IndexOf(text, "-")
  IN
  IF colonPos # 0
    THEN Styled("cyan", SubSeq(text, 1, colonPos - 1) \o <<":">>)
           \o processValue(SubSeq(text, colonPos + 1, Len(text)))
  ELSE IF Trim(text) # << >> /\ Trim(text)[1] = "-"
    THEN Styled("none", SubSeq(text, 1, dash - 1))
           \o Styled("yellow", <<"-">>)
           \o Styled("none", SubSeq(text, dash + 1, Len(text)))
  ELSE Styled("none", text)

\* yamlString.split('\n').map(line => ...), for one line
coloredLines ==
  /\ ~line.done
  /\ line' = [line EXCEPT !.colored = colorLine(line.text), !.done = TRUE]
  /\ UNCHANGED <<file, proc, active>>

---------------------------------------------------------------------------
(* Specification *)

\* a record read from a hand-edited file that has no apiKey
NoDetails == [k \in {} |-> EmptyKey]

\* The file before the first command: absent on a fresh installation; the
\* other contents are files the user edited.  Every other content is
\* written by the commands.
InitFiles ==
  {AbsentFile, EmptyFile, MalformedFile, stringify(NoDomainsConfig),
   stringify(Config([d \in {"a.com"} |-> NoDetails]))}

Init ==
  /\ file \in InitFiles
  /\ proc = [p \in Procs |-> Idle(file)]
  /\ active = {"p1"}
  /\ line = NoLine

Next ==
  \E p \in Procs :
    \/ \E cmd \in Commands : \E opts \in OptionsOf(cmd) : Invoke(p, cmd, opts)
    \/ ProcessExit(p)
    \/ configure_start(p)
    \/ \E resp \in Responses : configure_validated(p, resp)
    \/ \E io \in ReadOutcomes : addDomain_load(p, io)
    \/ \E io \in WriteOutcomes : addDomain_save(p, io)
    \/ deleteDomain_start(p)
    \/ \E io \in ReadOutcomes : deleteDomain_load(p, io)
    \/ \E io \in WriteOutcomes : deleteDomain_save(p, io)
    \/ display_start(p)
    \/ \E io \in ReadOutcomes : display_load(p, io)
    \/ getDomain_start(p)
    \/ \E io \in ReadOutcomes : getDomain_load(p, io)
    \/ \E resp \in Responses : getDomain_fetched(p, resp)
    \/ getCallInfo_start(p)
    \/ \E io \in ReadOutcomes : getCallInfo_load(p, io)
    \/ \E resp \in Responses : getCallInfo_fetched(p, resp)

Spec == Init /\ [][Next]_vars

---------------------------------------------------------------------------
(* The formatters on documents: an invocation of call or get that awaits  *)
(* the answer to its request is answered with each document in turn.      *)

\* '2025-04-01T02:15:30'
StampSecond ==
  <<"2", "0", "2", "5", "-", "0", "4", "-", "0", "1", "T", "0", "2",
  ":", "1", "5", ":", "3", "0">>

\* '2025-04-01T02:15:30.500Z'
StampFull ==
  <<"2", "0", "2", "5", "-", "0", "4", "-", "0", "1", "T", "0", "2",
  ":", "1", "5", ":", "3", "0", ".", "5", "0", "0", "Z">>

\* '2025-04-01T02:15:30.500+02:00'
StampOffset ==
  <<"2", "0", "2", "5", "-", "0", "4", "-", "0", "1", "T", "0", "2",
  ":", "1", "5", ":", "3", "0", ".", "5", "0", "0", "+", "0", "2", ":",
  "0", "0">>

\* 'not-a-date'
NotADate ==
  <<"n", "o", "t", "-", "a", "-", "d", "a", "t", "e">>

\* '2025-13-01T02'
StampMonth13 ==
  <<"2", "0", "2", "5", "-", "1", "3", "-", "0", "1", "T", "0", "2">>

\* the strings met under the keys timestamp and time
Stamps ==
  {StampHour, StampMinute, StampSecond, StampFull, StampOffset, NotADate,
   StampMonth13}

\* the sequences of at most n elements of the set S
SeqsUpTo(S, n) == UNION {[1..k -> S] : k \in 0..n}

\* Object.keys order of the keys of a JSON text: array indexes first and
\* ascending, no key twice
ParsedOrder(fields) ==
  \A i, j \in 1..Len(fields) :
    i < j => /\ fields[i].k # fields[j].k
             /\ IsArrayIndex(fields[j].k)
                  => /\ IsArrayIndex(fields[i].k)
                     /\ DigitValue(fields[i].k) < DigitValue(fields[j].k)

\* top-level properties for the reorganizer: simple and complex values,
\* the empty array and the empty object, null, array-index keys, and
\* events and log arrays that are not in order
FieldPool ==
  {Field("b", Arr(<<Num(1), Num(2)>>)),
   Field("a", Num(5)),
   Field("c", Obj(<<Field("x", Num(1))>>)),
   Field("e", Arr(<< >>)),
   Field("m", Obj(<< >>)),
   Field("n", Null),
   Field("1", Arr(<<Num(1)>>)),
   Field("0", Str(<<"x">>)),
   Field("log", Null),
   Field("log", Arr(<<Obj(<<Field("time", Str(StampHour))>>),
                      Obj(<<Field("timestamp", Str(StampMinute))>>)>>)),
   Field("events", Arr(<<Obj(<<Field("timestamp", Str(StampHour))>>),
                         Obj(<<Field("timestamp", Str(StampMinute))>>)>>))}

ReorganizerDocs ==
  {Obj(fs) : fs \in {f \in SeqsUpTo(FieldPool, MaxFields) : ParsedOrder(f)}}

\* entries of an events array: with a timestamp, with one that is no date,
\* with a time only, and with neither
EventEntries ==
  {Obj(<<Field("timestamp", Str(StampHour))>>),
   Obj(<<Field("timestamp", Str(StampMinute))>>),
   Obj(<<Field("timestamp", Str(NotADate))>>),
   Obj(<<Field("time", Str(StampSecond))>>),
   Obj(<<Field("id", Num(1))>>)}

\* entries of a log array: with a timestamp, with a time, with both, with
\* a time that is no date, and with neither
LogEntries ==
  {Obj(<<Field("timestamp", Str(StampHour))>>),
   Obj(<<Field("time", Str(StampMinute))>>),
   Obj(<<Field("timestamp", Str(StampSecond)), Field("time", Str(StampHour))>>),
   Obj(<<Field("time", Str(NotADate))>>),
   Obj(<<Field("id", Num(1))>>)}

SortDocs ==
  {Obj(<<Field("id", Num(7)), Field("events", Arr(es))>>) :
     es \in SeqsUpTo(EventEntries, MaxEntries)}
  \cup {Obj(<<Field("id", Num(7)), Field("log", Arr(ls))>>) :
          ls \in SeqsUpTo(LogEntries, MaxEntries)}

\* value under depth alternating arrays and objects
RECURSIVE Nested(_, _)
Nested(value, depth) ==
  IF depth = 0 THEN value
  ELSE IF depth % 2 = 1 THEN Arr(<<Num(0), Nested(value, depth - 1)>>)
  ELSE Obj(<<Field("data", Nested(value, depth - 1))>>)

\* a string under timestamp, under time and under another key, at every
\* depth
StampDocs ==
  {Obj(<<Field("id", Num(7)),
         Field("entry", Nested(Obj(<<Field(k, Str(s))>>), d))>>) :
     k \in {"timestamp", "time", "started"}, s \in Stamps, d \in 0..MaxDepth}

\* the documents the API answers with
Documents == {Null} \cup ReorganizerDocs \cup SortDocs \cup StampDocs

DocumentResponses ==
  {[kind |-> "ok", status |-> 200, data |-> d] : d \in Documents}
    \cup {[kind |-> "ok", status |-> 204, data |-> EmptyBody]}

\* the file of a user who has configured a.com
ConfiguredFile == stringify(Config([d \in {"a.com"} |-> Details(Key(MaskThreshold))]))

\* getCallInfo at `await getSessionInfo(...)`
AwaitingSession(showLogOnly) ==
  LET opts == [NoOpts EXCEPT !.domain = "a.com", !.session = "s1",
                             !.log = showLogOnly]
      st   == [Idle(ConfiguredFile) EXCEPT
                 !.pc = "start", !.cmd = "call", !.opts = opts]
      r    == loadConfig(ConfiguredFile, "ok")
  IN  Goto(Loaded(st, ConfiguredFile, "ok", r),
           LoadEvents(r) \o <<"net">>, "call_fetch")

\* getDomain at `await getDomainInfo(...)`
AwaitingDomain ==
  LET opts == [NoOpts EXCEPT !.domain = "a.com"]
      st   == [Idle(ConfiguredFile) EXCEPT
                 !.pc = "start", !.cmd = "get", !.opts = opts]
      r    == loadConfig(ConfiguredFile, "ok")
  IN  Goto(Loaded(st, ConfiguredFile, "ok", r),
           LoadEvents(r) \o <<"net">>, "get_fetch")

InitFormat ==
  /\ file = ConfiguredFile
  /\ active = {"p1"}
  /\ line = NoLine
  /\ \E st \in {AwaitingSession(FALSE), AwaitingSession(TRUE), AwaitingDomain} :
       proc = [p \in Procs |-> IF p = "p1" THEN st ELSE Idle(file)]

NextFormat ==
  \E resp \in DocumentResponses :
    \/ getCallInfo_fetched("p1", resp)
    \/ getDomain_fetched("p1", resp)

SpecFormat == InitFormat /\ [][NextFormat]_vars

---------------------------------------------------------------------------
(* The highlighter on lines: each line that yaml.stringify writes for a   *)
(* document is passed through the callback of coloredLines.               *)

\* indentation of a line: two spaces for each level of nesting
Indents == {<< >>, <<" ", " ">>, <<" ", " ", " ", " ">>}

\* the start of an entry of a list, and of a list that is an entry of a list
ListMarkers == {<<"-", " ">>, <<"-", " ", "-", " ">>}

\* keys of maps as YAML writes them, plain and quoted
LineKeys == {<<"a">>, <<"t", "i", "m", "e">>, <<"\"", "1", "\"">>}

\* scalars as YAML writes them
LineScalars ==
  {<<"5">>, <<"-", "5">>, <<"1", ".", "5">>, <<"n", "u", "l", "l">>,
   <<"t", "r", "u", "e">>, <<"a", "b", "c">>, <<"{", "}">>, <<"[", "]">>,
   <<"\"", "1", "\"">>, NotADate, toISOString(DateParse(StampFull)),
   completeDate(StampHour)}

\* key: value, and key: alone before a nested map or list
MapLines ==
  {key \o <<":">> : key \in LineKeys}
    \cup {key \o <<":", " ">> \o value :
            key \in LineKeys, value \in LineScalars}

\* the lines of yamlString.split('\n'): entries of maps, entries of lists
\* (scalars and first entries of maps), and the empty line after the last
YamlLines ==
  {indent \o entry : indent \in Indents, entry \in MapLines \cup LineScalars}
    \cup {indent \o marker \o entry :
            indent \in Indents, marker \in ListMarkers,
            entry \in MapLines \cup LineScalars}
    \cup {<< >>}

InitLines ==
  /\ file = AbsentFile
  /\ active = {}
  /\ proc = [p \in Procs |-> Idle(file)]
  /\ \E text \in YamlLines : line = [NoLine EXCEPT !.text = text]

NextLines == coloredLines

SpecLines == InitLines /\ [][NextLines]_vars

---------------------------------------------------------------------------
(* Two writers: two configure commands run as two processes, each from    *)
(* its start to its end, with the steps of saveConfig apart.              *)

\* the domains the two commands configure
WriterDomains == {"a.com", "b.com"}

\* what the file holds before the two commands: nothing, or one domain
WriterFiles == {AbsentFile, ConfiguredFile}

\* configure at its start, with a domain and an API key
Configuring(f, domain, apiKey) ==
  [Idle(f) EXCEPT !.pc = "start", !.cmd = "configure",
                  !.opts = [NoOpts EXCEPT !.domain = domain,
                                          !.apikey = apiKey]]

InitWriters ==
  /\ file \in WriterFiles
  /\ active = Procs
  /\ line = NoLine
  /\ \E d1 \in WriterDomains, d2 \in WriterDomains :
       \E k1 \in ApiKeys, k2 \in ApiKeys :
         proc = [p \in Procs |->
                   IF p = "p1" THEN Configuring(file, d1, k1)
                               ELSE Configuring(file, d2, k2)]

NextWriters ==
  \E p \in Procs :
    \/ configure_start(p)
    \/ \E resp \in Responses : configure_validated(p, resp)
    \/ \E io \in ReadOutcomes : addDomain_load(p, io)
    \/ \E io \in OpenOutcomes : writeFile_open(p, io)
    \/ \E io \in WriteOutcomes : writeFile_write(p, io)

SpecWriters == InitWriters /\ [][NextWriters]_vars

---------------------------------------------------------------------------
(* Properties *)

\* event e occurs in trace t
Has(t, e) == \E i \in DOMAIN t : t[i] = e

\* every occurrence of b in t has an occurrence of a before it
Before(t, a, b) ==
  \A j \in DOMAIN t : t[j] = b => \E i \in 1..(j - 1) : t[i] = a

\* the own entries of the domains mapping a configuration holds
DomainsOf(config) == IF config.hasDomains THEN config.domains ELSE EmptyObject

\* C1: for every domain name that is not present in the stored domains
\* mapping, delete reports not-found, exits non-zero, never calls save, and
\* leaves the persisted configuration as it was.
C1_DeleteAbsentIsNotFound ==
  \A p \in Procs :
    LET st == proc[p] IN
    (/\ st.cmd = "delete"
     /\ st.opts.domain # NoArg
     /\ st.opts.domain \notin DOMAIN StoredDomains(st.start))
    => /\ ~Has(st.trace, "saveConfig")
       /\ file = st.start
       /\ st.pc = "done" => (st.exit = 1 /\ Has(st.trace, "err:notfound"))

\* C2: addOrUpdate(domainName, apiKey) followed by load returns a
\* configuration whose domains mapping holds under domainName a record with
\* exactly that apiKey, whatever the store held before.
C2_AddThenLoadReturnsRecord ==
  \A p \in Procs :
    LET st == proc[p]
        c  == loadConfig(file, "ok").config
    IN
    (st.cmd = "configure" /\ st.pc = "done" /\ Has(st.trace, "saved"))
    => /\ c.hasDomains
       /\ st.opts.domain \in DOMAIN c.domains
       /\ c.domains[st.opts.domain] = Details(st.opts.apikey)

\* C3: addOrUpdate(d, k) and a successful remove(d) leave every entry of
\* the domains mapping whose key differs from d unchanged.
C3_OtherEntriesUnchanged ==
  \A p \in Procs :
    LET st     == proc[p]
        before == StoredDomains(st.start)
        after  == StoredDomains(file)
    IN
    (/\ st.pc = "done"
     /\ Has(st.trace, "saved")
     /\ \/ st.cmd = "configure"
        \/ st.cmd = "delete" /\ st.opts.domain \in DOMAIN before)
    => \A e \in DOMAIN before \ {st.opts.domain} :
         e \in DOMAIN after /\ after[e] = before[e]

\* C4: when delete is run for a domain that is present in the store, the
\* saved configuration no longer contains that name, and the success
\* message is printed only after the save has completed; on a store that
\* held only that domain the resulting domains mapping is empty.
C4_DeleteRemovesThenReports ==
  \A p \in Procs :
    LET st == proc[p]
        d  == st.opts.domain
    IN
    st.cmd = "delete" =>
      /\ Before(st.trace, "saved", "out:removed")
      /\ Has(st.trace, "saved") =>
           /\ file.kind = "yaml"
           /\ d \notin DOMAIN StoredDomains(file)
           /\ DOMAIN StoredDomains(st.start) = {d} =>
                StoredDomains(file) = EmptyObject
      /\ (/\ st.pc = "done"
          /\ d \in DOMAIN StoredDomains(st.start)
          /\ st.seen.io = "ok"
          /\ ~Has(st.trace, "log:save_error"))
         => (Has(st.trace, "out:removed") /\ st.exit = 0)

\* a delete of the only stored domain has printed its success message
C4_Witness ==
  \E p \in Procs :
    /\ proc[p].cmd = "delete"
    /\ Has(proc[p].trace, "out:removed")
    /\ proc[p].opts.domain = "a.com"
    /\ DOMAIN StoredDomains(proc[p].start) = {"a.com"}


\* the characters of a sequence
Chars(seq) == {seq[i] : i \in DOMAIN seq}

\* C5: for every stored apiKey display shows a masked form: for a key
\* longer than 8 characters its first 4 characters, '...', and its last 4
\* characters, and none of the characters in between; for a key of 8
\* characters or less, or a missing key, the placeholder '********'.
C5_DisplayMasksKeys ==
  \A p \in Procs :
    LET st     == proc[p]
        stored == StoredDomains(st.start)
    IN
    st.cmd = "display" =>
      /\ (st.pc = "done" /\ st.seen.io = "ok") => DOMAIN st.rows = DOMAIN stored
      /\ \A d \in DOMAIN st.rows :
           /\ d \in DOMAIN stored
           /\ LET k   == IF "apiKey" \in DOMAIN stored[d]
                           THEN stored[d].apiKey ELSE << >>
                  row == st.rows[d]
                  n   == Len(k)
              IN  IF n > 8
                    THEN /\ Len(row) = 11
                         /\ \A i \in 1..4 :
                              row[i] = k[i] /\ row[7 + i] = k[n - 4 + i]
                         /\ \A i \in 5..7 : row[i] = "."
                         /\ \A i \in 5..(n - 4) : k[i] \notin Chars(row)
                    ELSE row = <<"*", "*", "*", "*", "*", "*", "*", "*">>

\* display has printed a key longer than 8 characters and a record
\* without a key
C5_Witness ==
  \E p \in Procs :
    /\ proc[p].cmd = "display" /\ proc[p].pc = "done"
    /\ Has(proc[p].trace, "out:table")
    /\ \E d \in DOMAIN StoredDomains(proc[p].start) :
         /\ "apiKey" \in DOMAIN StoredDomains(proc[p].start)[d]
         /\ Len(StoredDomains(proc[p].start)[d].apiKey) > 8
    /\ \E d \in DOMAIN StoredDomains(proc[p].start) :
         "apiKey" \notin DOMAIN StoredDomains(proc[p].start)[d]
    /\ \E d \in DOMAIN StoredDomains(proc[p].start) :
         /\ "apiKey" \in DOMAIN StoredDomains(proc[p].start)[d]
         /\ Len(StoredDomains(proc[p].start)[d].apiKey) = 8

ReadOnlyCommands == {"display", "get", "call"}

\* C6: display, get and call never write the configuration file: no step
\* of such a command changes the file, whatever its arguments and outcome.
C6_ReadOnlyCommandsKeepFile ==
  [][\A p \in Procs :
       (proc[p].cmd \in ReadOnlyCommands /\ proc'[p] # proc[p])
       => file' = file]_vars

\* a get on a configured domain has ended on an API error, and the file
\* still holds its domains
C6_Witness ==
  \E p \in Procs :
    /\ proc[p].cmd = "get" /\ proc[p].pc = "done"
    /\ proc[p].resp.kind = "http_error"
    /\ proc[p].exit = 1
    /\ DOMAIN StoredDomains(file) # {}
    /\ file = proc[p].start

C8_ConfigureStoresOnlyValidated ==
  \A p \in Procs :
    LET st == proc[p]
        ok == st.resp.kind = "ok" /\ st.resp.status = 200
    IN
    st.cmd = "configure" =>
      /\ (Has(st.trace, "addDomain") \/ Has(st.trace, "loadConfig")
            \/ Has(st.trace, "saveConfig") \/ file # st.start)
         => ok
      /\ (st.resp.kind # "none" /\ ~ok)
         => /\ st.pc = "done" /\ st.exit = 1
            /\ ~Has(st.trace, "addDomain")
            /\ ~Has(st.trace, "saveConfig")
            /\ file = st.start
      /\ Before(st.trace, "net", "addDomain")

\* a configure whose request was answered with a 2xx status other than
\* 200 has exited with an error, and one whose request failed likewise
C8_Witness ==
  \E p \in Procs :
    /\ proc[p].cmd = "configure" /\ proc[p].pc = "done"
    /\ proc[p].resp.kind = "ok" /\ proc[p].resp.status = 204
    /\ proc[p].exit = 1
    /\ proc[p].opts.domain = "b.com"
    /\ "b.com" \notin DOMAIN StoredDomains(file)

\* C9: every usage error aborts the command before any network request
\* and before any access to the configuration store: a missing --domain,
\* a missing --session (call), a missing --apikey (configure), and get
\* with more than one of --subscriber, --application, --trunk, --dnid.
C9_UsageErrorBeforeAnyAccess ==
  \A p \in Procs :
    LET st == proc[p]
        usage ==
          \/ st.opts.domain = NoArg /\ st.cmd # "display"
          \/ st.cmd = "call" /\ st.opts.session = NoArg
          \/ st.cmd = "configure" /\ st.opts.apikey = EmptyKey
          \/ st.cmd = "get" /\ resourceOptionsCount(st.opts) > 1
    IN
    (st.cmd \in Commands /\ usage) =>
      /\ ~Has(st.trace, "net")
      /\ ~Has(st.trace, "loadConfig")
      /\ st.pc = "done" => (st.exit = 1 /\ st.trace = <<"err:usage">>)

\* C10: when get or call is run for a domain name that is absent from the
\* loaded store, the command reports the domain as not found and exits
\* non-zero without issuing any network request and without rendering any
\* document.
C10_AbsentDomainIsNotFound ==
  \A p \in Procs :
    LET st == proc[p] IN
    (/\ st.cmd \in {"get", "call"}
     /\ st.seen.loaded
     /\ st.opts.domain \notin DOMAIN DomainsOf(st.seen.config))
    => /\ st.pc = "done" /\ st.exit = 1
       /\ Has(st.trace, "err:notfound")
       /\ ~Has(st.trace, "net")
       /\ ~Has(st.trace, "out:render")

\* the number of occurrences of event e in trace t
Count(t, e) == Cardinality({i \in 1..Len(t) : t[i] = e})

\* the outcomes of a request that failed
FailedKinds == {"http_error", "no_response", "setup_error"}

\* C11: an invocation of configure, get or call sends at most one request;
\* once that request has failed (error status, no response, or a failure
\* to set the request up) the invocation is over with a non-zero exit code
\* and an error message, it has sent no second request, rendered no
\* document, and neither written the file nor added a record.
C11_OneRequestNoRetry ==
  \A p \in Procs :
    LET st == proc[p] IN
    st.cmd \in {"configure", "get", "call"}
    => /\ Count(st.trace, "net") <= 1
       /\ st.resp.kind \in FailedKinds
          => /\ st.pc = "done" /\ st.exit = 1
             /\ Has(st.trace, "err:command") \/ Has(st.trace, "err:api")
             /\ ~Has(st.trace, "out:render")
             /\ ~Has(st.trace, "out:nodata") /\ ~Has(st.trace, "out:noinfo")
             /\ ~Has(st.trace, "saveConfig")
             /\ file = st.start

\* a get whose only request got no response has ended
C11_Witness ==
  /\ proc["p1"].cmd = "get"
  /\ proc["p1"].resp.kind = "no_response"
  /\ proc["p1"].pc = "done"
  /\ Count(proc["p1"].trace, "net") = 1

\* the invocations that printed a document formatSessionYaml rendered
RenderedSessions ==
  {p \in Procs : proc[p].cmd = "call" /\ proc[p].out.kind = "rendered"}

\* s has one of the three short shapes and names a calendar date and time
\* of day (the day is one every month has)
ShortStamp(s) ==
  /\ HourOnly(s) \/ HourMinute(s) \/ HourMinuteSecond(s)
  /\ Number(s, 6, 7) \in 1..12 /\ Number(s, 9, 10) \in 1..28
  /\ Number(s, 12, 13) \in 0..23
  /\ Len(s) >= 16 => Number(s, 15, 16) \in 0..59
  /\ Len(s) >= 19 => Number(s, 18, 19) \in 0..59

\* the completion the claim gives for each shape
CompletedStamp(s) ==
  CASE Len(s) = 13 ->
         s \o <<":", "0", "0", ":", "0", "0", ".", "0", "0", "0", "Z">>
    [] Len(s) = 16 -> s \o <<":", "0", "0", ".", "0", "0", "0", "Z">>
    [] Len(s) = 19 -> s \o <<".", "0", "0", "0", "Z">>

\* after has the structure of before, and where before has a short stamp
\* under the key timestamp or time, after has its completion
RECURSIVE StampsCompleted(_, _, _)
StampsCompleted(key, before, after) ==
  IF before.t = "arr"
    THEN /\ after.t = "arr" /\ Len(after.items) = Len(before.items)
         /\ \A i \in 1..Len(before.items) :
              StampsCompleted(DigitChars[i], before.items[i], after.items[i])
  ELSE IF before.t = "obj"
    THEN /\ after.t = "obj" /\ Keys(after) = Keys(before)
         /\ \A i \in 1..Len(before.fields) :
              StampsCompleted(before.fields[i].k, before.fields[i].v,
                              after.fields[i].v)
  ELSE (before.t = "str" /\ key \in {"timestamp", "time"}
          /\ ShortStamp(before.s))
       => after = Str(CompletedStamp(before.s))

\* the same entries, each as often, in any order
SameEntries(a, b) ==
  /\ Len(a) = Len(b)
  /\ \A x \in {a[i] : i \in 1..Len(a)} :
       Cardinality({i \in 1..Len(a) : a[i] = x})
         = Cardinality({i \in 1..Len(b) : b[i] = x})

RECURSIVE EveryStamp(_, _, _, _)
EveryStamp(Holds(_, _), key, before, after) ==
  IF before.t = "arr"
    THEN /\ after.t = "arr" /\ Len(after.items) = Len(before.items)
         /\ \A i \in 1..Len(before.items) :
              EveryStamp(Holds, DigitChars[i], before.items[i], after.items[i])
  ELSE IF before.t = "obj"
    THEN /\ after.t = "obj" /\ Keys(after) = Keys(before)
         /\ \A i \in 1..Len(before.fields) :
              EveryStamp(Holds, before.fields[i].k, before.fields[i].v,
                         after.fields[i].v)
  ELSE (before.t = "str" /\ key \in {"timestamp", "time"})
       => Holds(before.s, after)

\* s, completed if it is short, is no date-time
Unparsable(s) == ~DateParse(completeDate(s)).valid

\* s is a complete instant: date, time with milliseconds, and zone
CompleteInstant(s) == DateParse(s).valid

\* an answered call whose document is an object has ended without an error
NormalizerRaisesNothing ==
  \A p \in Procs :
    LET st == proc[p] IN
    (st.cmd = "call" /\ st.pc = "done" /\ st.resp.kind = "ok"
       /\ st.resp.data.t = "obj")
    => st.exit = 0 /\ st.out.kind = "rendered"

Without(seq, S) ==
  LET Keep(x) == x \notin S IN SelectSeq(seq, Keep)

\* the set of the elements of seq
Range(seq) == {seq[i] : i \in 1..Len(seq)}

\* C14: the document the reorganizer puts out has the keys of the document
\* it was given, each with the same value (an events or log array with the
\* same entries in some order), and lists first the keys with a simple
\* value, in the order they had, then the keys with a complex value, in the
\* order they had.
C14_StablePartition ==
  \A p \in RenderedSessions :
    LET out     == proc[p].out
        before  == out.sessionForYaml
        complex == out.complexKeys
    IN  /\ Keys(out.document)
             = Without(Keys(before), Range(complex)) \o complex
        /\ \A i \in 1..Len(before.fields) :
             LET f == before.fields[i]
                 v == GetProp(out.document, f.k)
             IN  IF f.k \in {"events", "log"} /\ f.v.t = "arr"
                   THEN v.t = "arr" /\ SameEntries(v.items, f.v.items)
                   ELSE v = f.v

\* the calls that were answered with a document (an object)
AnsweredCalls ==
  {p \in Procs : /\ proc[p].cmd = "call" /\ proc[p].pc = "done"
                 /\ proc[p].resp.kind = "ok" /\ proc[p].resp.data.t = "obj"}

\* the invocation rendered the whole of the document it was answered with,
\* under the title of a full session
RenderedInFull(st) ==
  /\ st.out.kind = "rendered"
  /\ Range(Keys(st.out.document)) = Range(Keys(st.resp.data))
  /\ st.out.title = "session"

\* the invocation rendered a document with the one key log, under the
\* title of a log
RenderedLogOnly(st) ==
  /\ st.out.kind = "rendered"
  /\ Keys(st.out.document) = <<"log">>
  /\ st.out.title = "log"

\* C15 as stated: with --log, a session document that has a log field is
\* rendered as a document with the one key log under the log title, and
\* one that has no log field is rendered in full under the session title
\* after a warning; without --log the document is rendered in full.
C15_LogFieldAlone ==
  \A p \in AnsweredCalls :
    LET st == proc[p]
        hasLog == "log" \in Range(Keys(st.resp.data))
    IN  /\ (st.opts.log /\ hasLog)
             => RenderedLogOnly(st) /\ ~Has(st.trace, "out:warning_nolog")
        /\ (st.opts.log /\ ~hasLog)
             => RenderedInFull(st) /\ Has(st.trace, "out:warning_nolog")
        /\ ~st.opts.log
             => /\ st.out.kind = "rendered"
                /\ Range(Keys(st.out.document)) = Range(Keys(st.resp.data))
                /\ ~Has(st.trace, "out:warning_nolog")

\* C15, amended: with --log, a session document whose log field has a
\* truthy value (not null, false, 0 or the empty string) is rendered as a
\* document with the one key log under the log title, and one that has no
\* log field, or a log field without a truthy value, is rendered in full
\* under the session title after a warning; without --log the document is
\* rendered in full.
C15_TruthyLogAlone ==
  \A p \in AnsweredCalls :
    LET st == proc[p]
        hasLog == ToBoolean(GetProp(st.resp.data, "log"))
    IN  /\ (st.opts.log /\ hasLog)
             => RenderedLogOnly(st) /\ ~Has(st.trace, "out:warning_nolog")
        /\ (st.opts.log /\ ~hasLog)
             => RenderedInFull(st) /\ Has(st.trace, "out:warning_nolog")
        /\ ~st.opts.log
             => /\ st.out.kind = "rendered"
                /\ Range(Keys(st.out.document)) = Range(Keys(st.resp.data))
                /\ ~Has(st.trace, "out:warning_nolog")

\* call --log has rendered the log of a document that has other keys too
C15_Witness ==
  /\ "p1" \in AnsweredCalls
  /\ proc["p1"].opts.log
  /\ Len(Keys(proc["p1"].resp.data)) = MaxFields
  /\ GetProp(proc["p1"].resp.data, "log").t = "arr"
  /\ RenderedLogOnly(proc["p1"])

\* C16: a formatter that is given an absent document (null) or an empty
\* one (an object without keys) returns its 'no information available'
\* text and renders nothing: so ends every call and every get that was
\* answered with such a document and handed it to its formatter.
C16_AbsentOrEmptyIsNoInformation ==
  \A p \in Procs :
    LET st == proc[p] IN
    (/\ st.cmd \in {"call", "get"} /\ st.pc = "done" /\ st.resp.kind = "ok"
     /\ st.resp.data \in {Null, Obj(<< >>)}
     /\ ~Has(st.trace, "err:command"))
    => /\ st.out.kind = IF st.cmd = "call" THEN "noinfo" ELSE "nodata"
       /\ ~Has(st.trace, "out:render")

\* C17 as stated: the reorganizer puts a key into the complex group if and
\* only if its value is an array with elements or an object with keys;
\* a scalar, null, the empty object and the empty array go into the simple
\* group.
C17_ComplexIffNonEmpty ==
  \A p \in RenderedSessions :
    LET out == proc[p].out IN
    \A i \in 1..Len(out.sessionForYaml.fields) :
      LET f == out.sessionForYaml.fields[i] IN
      f.k \in Range(out.complexKeys)
        <=> \/ f.v.t = "arr" /\ Len(f.v.items) > 0
            \/ f.v.t = "obj" /\ Len(f.v.fields) > 0

\* C17, amended: the reorganizer puts a key into the complex group if and
\* only if its value is an array, empty or not, or an object with keys;
\* a scalar, null and the empty object go into the simple group.
C17_ComplexIffArrayOrNonEmptyObject ==
  \A p \in RenderedSessions :
    LET out == proc[p].out IN
    \A i \in 1..Len(out.sessionForYaml.fields) :
      LET f == out.sessionForYaml.fields[i] IN
      f.k \in Range(out.complexKeys)
        <=> \/ f.v.t = "arr"
            \/ f.v.t = "obj" /\ Len(f.v.fields) > 0

\* a document with an empty array, an empty object and a scalar has been
\* reorganized: the empty array alone is in the complex group, and last
C17_Witness ==
  /\ "p1" \in RenderedSessions
  /\ Keys(proc["p1"].out.input) = <<"e", "m", "a">>
  /\ proc["p1"].out.complexKeys = <<"e">>
  /\ Keys(proc["p1"].out.document) = <<"m", "a", "e">>

\* the sort key of an entry of the array under the key events or log: the
\* Date of its timestamp, for log else of its time, else of 0
SortKey(k, entry) ==
  IF k = "events"
    THEN NewDate(Or(GetProp(entry, "timestamp"), Num(0)))
    ELSE NewDate(Or(GetProp(entry, "timestamp"),
                    Or(GetProp(entry, "time"), Num(0))))

\* C18: in the document the reorganizer puts out, the array under events
\* and the array under log hold the entries they were given, and no entry
\* stands before an entry with an earlier sort key: the key is the
\* timestamp, for log else the time, and 1970-01-01T00:00:00.000Z for an
\* entry that has neither.  (Entries whose timestamp is no date have no
\* place in that order; the entries that have one are ascending.)
C18_AscendingByTimestamp ==
  \A p \in RenderedSessions :
    LET out == proc[p].out IN
    \A k \in {"events", "log"} :
      LET before == GetProp(out.sessionForYaml, k)
          after  == GetProp(out.document, k)
      IN  before.t = "arr"
          => /\ after.t = "arr" /\ SameEntries(after.items, before.items)
             /\ \A i, j \in 1..Len(after.items) :
                  (/\ i < j
                   /\ SortKey(k, after.items[i]).valid
                   /\ SortKey(k, after.items[j]).valid)
                  => DateDifference(SortKey(k, after.items[i]),
                                    SortKey(k, after.items[j]))
                       \in {"negative", "zero"}


\* the line starts, after its indentation, with the marker of a list entry
BeginsWithListMarker(text) == Trim(text) # << >> /\ Trim(text)[1] = "-"

\* the coloured line has the marker, and nothing but it, in the style of
\* list markers, after its indentation
MarkerHighlighted(colored) ==
  \E i \in 1..Len(colored) :
    /\ colored[i] = [style |-> "yellow", text |-> <<"-">>]
    /\ \A j \in 1..(i - 1) :
         /\ colored[j].style = "none"
         /\ \A k \in 1..Len(colored[j].text) : colored[j].text[k] = " "

\* C19: every highlighted line that begins with a list marker has the marker
\* itself in the list-marker style, whether or not the line also holds a
\* colon and whatever the class of its value.
C19_ListMarkerHighlighted ==
  (line.done /\ BeginsWithListMarker(line.text))
    => MarkerHighlighted(line.colored)


\* the step is the end of a successful save of process p
SaveEnds(p) ==
  /\ proc[p].pc = "add_write"
  /\ proc'[p].pc = "done" /\ proc'[p].exit = 0

\* C20: when two configure commands run as two processes and their loads
\* and saves interleave, the file after each save, and so after the last
\* one, is exactly the whole configuration that save wrote: it holds the
\* record of its writer and it is never a mixture of two writes.
C20_LastSaveWhole ==
  [][\A p \in Procs :
       SaveEnds(p) =>
         /\ file' = stringify(proc[p].config)
         /\ proc[p].opts.domain \in DOMAIN proc[p].config.domains
         /\ proc[p].config.domains[proc[p].opts.domain]
              = Details(proc[p].opts.apikey)]_vars


\* the invocation is at the writeFile of a saveConfig
AtSave(st) == st.pc \in {"add_save", "del_save"}

\* the saveConfig of the invocation has failed
SaveFailed(st) == Has(st.trace, "log:save_error")

\* the success messages of configure and delete
SuccessMessages == {"out:configured", "out:removed"}

\* C21: a save that fails during configure or delete is not swallowed:
\* saveConfig logs the error and rethrows it, leaving the file as it was;
\* the invocation is then over with exit code 1 after one error message of
\* the command, printed after the failure, and it has printed no success
\* message.
C21_SaveFailureReported ==
  \A p \in Procs :
    LET st == proc[p]
        r  == saveConfig(file, st.config, "write_error")
    IN  /\ AtSave(st) => r.raised /\ r.logged /\ r.file = file
        /\ SaveFailed(st) =>
             /\ st.cmd \in {"configure", "delete"}
             /\ st.pc = "done" /\ st.exit = 1
             /\ Count(st.trace, "err:command") = 1
             /\ st.trace[Len(st.trace)] = "err:command"
             /\ st.trace[Len(st.trace) - 1] = "log:save_error"
             /\ \A e \in SuccessMessages : ~Has(st.trace, e)

\* a delete whose save has failed is over with exit code 1
C21_Witness ==
  \E p \in Procs :
    /\ proc[p].cmd = "delete" /\ SaveFailed(proc[p])
    /\ proc[p].pc = "done" /\ proc[p].exit = 1

====
